---------------------------- MODULE Spec2Model ----------------------------
(***************************************************************************)
(* Model of the MemoryAllocator class of                                   *)
(* src/demos/memory-allocator/allocator.js.                                *)
(*                                                                         *)
(* Indices are 0-based as in the JavaScript source: block index i of the   *)
(* source is element i + 1 of the TLA+ sequence `blocks`.  The block and   *)
(* record field `id: null` is written NULL.  The `timestamp` field of an   *)
(* allocation record (Date.now()) is never read by the allocator and is    *)
(* left out of the records.                                                *)
(***************************************************************************)
EXTENDS Integers, Sequences, FiniteSets, TLC

(* ------------------------------ bounds -------------------------------- *)

\* Largest pool size (the source's UI uses 1024; the pool is scaled down).
MaxTotal == 4

\* The allocator hands out ids 1..MaxId between two resets.
MaxId == 3

\* Pool sizes reset() may be called with; 0 stands for a missing (or falsy)
\* argument, which keeps the current size.
ResetSizes == {0, MaxTotal - 1, MaxTotal}

\* Sizes allocate() is called with (positive integers).
AllocSizes == 1..MaxTotal

\* Ids free() is called with (positive integers, known or unknown).
FreeIds == 1..(MaxId + 1)

(* --------------------------- program values --------------------------- *)

\* `id: null` of a free block.
NULL == 0

\* findIndex / search result "not found".
NotFound == -1

\* Outcome of a search that raises TypeError (property read on undefined).
Thrown == -2

StrategyNames == <<"first-fit", "best-fit", "worst-fit", "next-fit">>

VARIABLES
    totalSize,        \* this.totalSize
    blocks,           \* this.blocks
    allocations,      \* this.allocations
    nextId,           \* this.nextId
    strategy,         \* this.strategy
    lastSearchIndex,  \* this.lastSearchIndex
    ret,              \* how the last call returned: [kind, val]
    issued            \* highest id any allocate call has returned so far

state == <<totalSize, blocks, allocations, nextId, strategy, lastSearchIndex>>
vars == <<totalSize, blocks, allocations, nextId, strategy, lastSearchIndex, ret, issued>>

FreeBlock(start, size) ==
    [start |-> start, size |-> size, allocated |-> FALSE, id |-> NULL]

(* ------------------------ placement strategies ------------------------ *)

\* The eligibility test without the size comparison.
EligibleAnySize(b, size) == ~b.allocated

Eligible(b, size) == ~b.allocated /\ b.size >= size

\* Array.prototype.findIndex: 0-based index of the first match, or -1.
FindIndex(bs, P(_)) ==
    IF \E i \in 1..Len(bs) : P(bs[i])
    THEN (CHOOSE i \in 1..Len(bs) :
            P(bs[i]) /\ \A j \in 1..(i - 1) : ~P(bs[j])) - 1
    ELSE NotFound

\* A search that returns the last fitting block instead of the first.
FirstFitLast(bs, size) ==
    IF \E i \in 1..Len(bs) : Eligible(bs[i], size)
    THEN (CHOOSE i \in 1..Len(bs) :
            Eligible(bs[i], size)
            /\ \A j \in (i + 1)..Len(bs) : ~Eligible(bs[j], size)) - 1
    ELSE NotFound

FirstFit(bs, size) ==
    LET Fits(b) == Eligible(b, size) IN FindIndex(bs, Fits)

\* The loop of bestFit from index i on; bestIndex = -1 iff bestSize is
\* still Infinity, in which case every size is below it.
RECURSIVE BestFitLoop(_, _, _, _, _)
BestFitLoop(bs, size, i, bestIndex, bestSize) ==
    IF i >= Len(bs) THEN bestIndex
    ELSE LET block == bs[i + 1] IN
         IF Eligible(block, size)
            /\ (bestIndex = NotFound \/ block.size < bestSize)
         THEN BestFitLoop(bs, size, i + 1, i, block.size)
         ELSE BestFitLoop(bs, size, i + 1, bestIndex, bestSize)

\* The bestFit loop with `<=` for `<`: the last of equal sizes wins.
RECURSIVE BestFitLoopLastTie(_, _, _, _, _)
BestFitLoopLastTie(bs, size, i, bestIndex, bestSize) ==
    IF i >= Len(bs) THEN bestIndex
    ELSE LET block == bs[i + 1] IN
         IF Eligible(block, size)
            /\ (bestIndex = NotFound \/ block.size <= bestSize)
         THEN BestFitLoopLastTie(bs, size, i + 1, i, block.size)
         ELSE BestFitLoopLastTie(bs, size, i + 1, bestIndex, bestSize)

BestFitLastTie(bs, size) == BestFitLoopLastTie(bs, size, 0, NotFound, 0)

BestFit(bs, size) == BestFitLoop(bs, size, 0, NotFound, 0)

RECURSIVE WorstFitLoop(_, _, _, _, _)
WorstFitLoop(bs, size, i, worstIndex, worstSize) ==
    IF i >= Len(bs) THEN worstIndex
    ELSE LET block == bs[i + 1] IN
         IF Eligible(block, size) /\ block.size > worstSize
         THEN WorstFitLoop(bs, size, i + 1, i, block.size)
         ELSE WorstFitLoop(bs, size, i + 1, worstIndex, worstSize)

\* The worstFit loop with `>=` for `>`: the last of equal sizes wins.
RECURSIVE WorstFitLoopLastTie(_, _, _, _, _)
WorstFitLoopLastTie(bs, size, i, worstIndex, worstSize) ==
    IF i >= Len(bs) THEN worstIndex
    ELSE LET block == bs[i + 1] IN
         IF Eligible(block, size) /\ block.size >= worstSize
         THEN WorstFitLoopLastTie(bs, size, i + 1, i, block.size)
         ELSE WorstFitLoopLastTie(bs, size, i + 1, worstIndex, worstSize)

WorstFitLastTie(bs, size) == WorstFitLoopLastTie(bs, size, 0, NotFound, -1)

WorstFit(bs, size) == WorstFitLoop(bs, size, 0, NotFound, -1)

\* The do-while loop of nextFit, entered with currentIndex.  Reading
\* this.blocks[currentIndex] past the end gives undefined, and
\* `block.allocated` then raises TypeError.
RECURSIVE NextFitLoop(_, _, _, _)
NextFitLoop(bs, size, startIndex, currentIndex) ==
    IF currentIndex >= Len(bs) THEN Thrown
    ELSE IF Eligible(bs[currentIndex + 1], size) THEN currentIndex
    ELSE LET next == (currentIndex + 1) % Len(bs) IN
         IF next # startIndex
         THEN NextFitLoop(bs, size, startIndex, next)
         ELSE NotFound

NextFit(bs, size, cursor) == NextFitLoop(bs, size, cursor, cursor)

\* The switch on this.strategy in allocate.
Search(strat, bs, size, cursor) ==
    CASE strat = "first-fit" -> FirstFit(bs, size)
      [] strat = "best-fit"  -> BestFit(bs, size)
      [] strat = "worst-fit" -> WorstFit(bs, size)
      [] strat = "next-fit"  -> NextFit(bs, size, cursor)
      [] OTHER -> NotFound

(* ----------------------- split, merge, defragment --------------------- *)

\* splice that inserts one position too far to the right.
InsertAfter(s, at, x) ==
    SubSeq(s, 1, at + 1) \o <<x>> \o SubSeq(s, at + 2, Len(s))

\* Array.prototype.splice(at, 0, x) and splice(at, 1), at 0-based.
InsertAt(s, at, x) == SubSeq(s, 1, at) \o <<x>> \o SubSeq(s, at + 1, Len(s))
RemoveAt(s, at) == SubSeq(s, 1, at) \o SubSeq(s, at + 2, Len(s))

\* PlaceBlock with the remainder's start left where it was.
PlaceBlockStartKept(bs, blockIndex, size, allocationId) ==
    LET block == bs[blockIndex + 1] IN
    IF block.size = size
    THEN [bs EXCEPT ![blockIndex + 1] =
            [block EXCEPT !.allocated = TRUE, !.id = allocationId]]
    ELSE LET newBlock == [start |-> block.start, size |-> size,
                          allocated |-> TRUE, id |-> allocationId]
             rest == [block EXCEPT !.size = block.size - size]
         IN InsertAt([bs EXCEPT ![blockIndex + 1] = rest], blockIndex, newBlock)

\* PlaceBlock that splits even when the block has exactly the size asked.
PlaceBlockAlwaysSplit(bs, blockIndex, size, allocationId) ==
    LET block == bs[blockIndex + 1]
        newBlock == [start |-> block.start, size |-> size,
                     allocated |-> TRUE, id |-> allocationId]
        rest == [block EXCEPT !.start = block.start + size,
                              !.size = block.size - size]
    IN InsertAt([bs EXCEPT ![blockIndex + 1] = rest], blockIndex, newBlock)

\* The block list after allocate has placed `size` at blockIndex.
PlaceBlock(bs, blockIndex, size, allocationId) ==
    LET block == bs[blockIndex + 1] IN
    IF block.size = size
    THEN [bs EXCEPT ![blockIndex + 1] =
            [block EXCEPT !.allocated = TRUE, !.id = allocationId]]
    ELSE LET newBlock == [start |-> block.start, size |-> size,
                          allocated |-> TRUE, id |-> allocationId]
             rest == [block EXCEPT !.start = block.start + size,
                                   !.size = block.size - size]
         IN InsertAt([bs EXCEPT ![blockIndex + 1] = rest], blockIndex, newBlock)

\* The for loop of mergeAdjacentFreeBlocks from index i on; after a merge
\* `i--` followed by the loop's `i++` re-examines the same index.
RECURSIVE MergeLoop(_, _)
MergeLoop(bs, i) ==
    IF i >= Len(bs) - 1 THEN bs
    ELSE LET current == bs[i + 1]
             next == bs[i + 2]
         IN IF ~current.allocated /\ ~next.allocated
            THEN MergeLoop(
                   RemoveAt([bs EXCEPT ![i + 1] =
                               [current EXCEPT !.size = current.size + next.size]],
                            i + 1),
                   i)
            ELSE MergeLoop(bs, i + 1)

\* The merge loop with `||` for `&&`: one free block of the pair is enough.
RECURSIVE MergeLoopEither(_, _)
MergeLoopEither(bs, i) ==
    IF i >= Len(bs) - 1 THEN bs
    ELSE LET current == bs[i + 1]
             next == bs[i + 2]
         IN IF ~current.allocated \/ ~next.allocated
            THEN MergeLoopEither(
                   RemoveAt([bs EXCEPT ![i + 1] =
                               [current EXCEPT !.size = current.size + next.size]],
                            i + 1),
                   i)
            ELSE MergeLoopEither(bs, i + 1)

\* The merge loop without the `i--` re-check after a merge.
RECURSIVE MergeLoopNoRecheck(_, _)
MergeLoopNoRecheck(bs, i) ==
    IF i >= Len(bs) - 1 THEN bs
    ELSE LET current == bs[i + 1]
             next == bs[i + 2]
         IN IF ~current.allocated /\ ~next.allocated
            THEN MergeLoopNoRecheck(
                   RemoveAt([bs EXCEPT ![i + 1] =
                               [current EXCEPT !.size = current.size + next.size]],
                            i + 1),
                   i + 1)
            ELSE MergeLoopNoRecheck(bs, i + 1)

MergeAdjacentNoRecheck(bs) == MergeLoopNoRecheck(bs, 0)

MergeAdjacentEither(bs) == MergeLoopEither(bs, 0)

MergeAdjacentFreeBlocks(bs) == MergeLoop(bs, 0)

\* The comparator with the start order turned round.
DefragCompareStartDesc(a, b) ==
    IF a.allocated /\ ~b.allocated THEN -1
    ELSE IF ~a.allocated /\ b.allocated THEN 1
    ELSE b.start - a.start

\* The comparator handed to sort in defragment.
DefragCompare(a, b) ==
    IF a.allocated /\ ~b.allocated THEN -1
    ELSE IF ~a.allocated /\ b.allocated THEN 1
    ELSE a.start - b.start

\* Array.prototype.sort (stable): x goes after every element that does
\* not compare greater than it.
RECURSIVE SortInsert(_, _)
SortInsert(sorted, x) ==
    IF sorted = <<>> THEN <<x>>
    ELSE IF DefragCompare(sorted[Len(sorted)], x) <= 0
         THEN Append(sorted, x)
         ELSE Append(SortInsert(SubSeq(sorted, 1, Len(sorted) - 1), x),
                     sorted[Len(sorted)])

RECURSIVE SortBlocks(_)
SortBlocks(bs) ==
    IF bs = <<>> THEN <<>>
    ELSE SortInsert(SortBlocks(SubSeq(bs, 1, Len(bs) - 1)), bs[Len(bs)])

\* "Recalculate start positions".
RECURSIVE Relayout(_, _)
Relayout(bs, currentStart) ==
    IF bs = <<>> THEN <<>>
    ELSE <<[bs[1] EXCEPT !.start = currentStart]>>
         \o Relayout(Tail(bs), currentStart + bs[1].size)

\* defragment without the final merge pass.
DefragmentNoMerge(bs) == Relayout(SortBlocks(bs), 0)

DefragmentBlocks(bs) == MergeAdjacentFreeBlocks(Relayout(SortBlocks(bs), 0))

\* free dropping the matching record from the history.
MarkFreedRemoves(allocs, allocationId) ==
    LET Others(a) == a.id # allocationId IN SelectSeq(allocs, Others)

\* free marking the newest record instead of the matching one.
MarkFreedNewest(allocs, allocationId) ==
    IF allocs = <<>> THEN allocs
    ELSE [allocs EXCEPT ![Len(allocs)] = [@ EXCEPT !.freed = TRUE]]

\* this.allocations.find(a => a.id === allocationId), then freed = true:
\* only the first matching record is touched.
MarkFreed(allocs, allocationId) ==
    LET Matches(a) == a.id = allocationId
        k == FindIndex(allocs, Matches)
    IN IF k = NotFound THEN allocs
       ELSE [allocs EXCEPT ![k + 1] = [@ EXCEPT !.freed = TRUE]]

\* free that leaves the owner id on the released block.
ReleaseBlockKeepsId(bs, blockIndex) ==
    MergeAdjacentFreeBlocks(
        [bs EXCEPT ![blockIndex + 1] = [@ EXCEPT !.allocated = FALSE]])

\* free that does not coalesce.
ReleaseBlockNoMerge(bs, blockIndex) ==
    [bs EXCEPT ![blockIndex + 1] = [@ EXCEPT !.allocated = FALSE, !.id = NULL]]

\* The block list after free has released the block at blockIndex.
ReleaseBlock(bs, blockIndex) ==
    MergeAdjacentFreeBlocks(
        [bs EXCEPT ![blockIndex + 1] =
            [@ EXCEPT !.allocated = FALSE, !.id = NULL]])

(* ------------------------------- getStats ----------------------------- *)

RECURSIVE SumSizes(_)
SumSizes(bs) == IF bs = <<>> THEN 0 ELSE bs[1].size + SumSizes(Tail(bs))

IsAllocated(b) == b.allocated
IsFree(b) == ~b.allocated
IsActive(a) == ~a.freed

TotalAllocated(bs) == SumSizes(SelectSeq(bs, IsAllocated))

\* The free total without the filter on free blocks.
TotalFreeUnfiltered(bs) == SumSizes(bs)

TotalFree(bs) == SumSizes(SelectSeq(bs, IsFree))

\* Math.max(...sizes) over a list of blocks, 0 for the empty list.
RECURSIVE MaxSize(_)
MaxSize(bs) ==
    IF bs = <<>> THEN 0
    ELSE LET rest == MaxSize(Tail(bs)) IN
         IF bs[1].size > rest THEN bs[1].size ELSE rest

\* The largest block size without the filter on free blocks.
LargestFreeBlockUnfiltered(bs) == MaxSize(bs)

LargestFreeBlock(bs) == MaxSize(SelectSeq(bs, IsFree))

\* ((totalFree - largestFreeBlock) / totalFree) * 100, or 0 when nothing is
\* free.  The quotient is kept exact, as the fraction num / den (den > 0);
\* the rounding of the source's double arithmetic is not represented.
Fragmentation(totalFree, largestFreeBlock) ==
    IF totalFree > 0
    THEN [num |-> (totalFree - largestFreeBlock) * 100, den |-> totalFree]
    ELSE [num |-> 0, den |-> 1]

GetStats ==
    [totalSize   |-> totalSize,
     allocated   |-> TotalAllocated(blocks),
     free        |-> TotalFree(blocks),
     fragmentation |-> Fragmentation(TotalFree(blocks), LargestFreeBlock(blocks)),
     allocations |-> Len(SelectSeq(allocations, IsActive)),
     freeBlocks  |-> Len(SelectSeq(blocks, IsFree))]

(* ------------------------------ operations ---------------------------- *)

\* The constructor, as the UI calls it (new MemoryAllocator(1024), scaled).
Init ==
    /\ totalSize = MaxTotal
    /\ blocks = <<FreeBlock(0, MaxTotal)>>
    /\ allocations = <<>>
    /\ nextId = 1
    /\ strategy = "first-fit"
    /\ lastSearchIndex = 0
    /\ ret = [kind |-> "void", val |-> 0]
    /\ issued = 0

\* setStrategy without the reset of the cursor.
SetStrategyCursorKept(s) ==
    /\ strategy' = StrategyNames[s]
    /\ UNCHANGED <<totalSize, blocks, allocations, nextId, issued, lastSearchIndex>>
    /\ ret' = [kind |-> "void", val |-> 0]

SetStrategy(s) ==
    /\ strategy' = StrategyNames[s]
    /\ lastSearchIndex' = 0
    /\ UNCHANGED <<totalSize, blocks, allocations, nextId, issued>>
    /\ ret' = [kind |-> "void", val |-> 0]

\* nextId read without the post-increment.
NextIdStuck(n) == n

\* `this.nextId++`: the value nextId holds after an id has been taken.
NextIdAfter(n) == n + 1

\* The record allocate pushes onto this.allocations.
NewRecord(allocationId, size) ==
    [id |-> allocationId, size |-> size, freed |-> FALSE]

\* allocate that puts the cursor back to the head of the list.
CursorAfterHead(blockIndex) == 0

\* allocate that leaves the cursor on the block after the one it filled.
CursorAfterRemainder(blockIndex) == blockIndex + 1

\* What allocate stores in this.lastSearchIndex on success.
CursorAfter(blockIndex) == blockIndex

\* allocate(size), with ids handed out up to `limit`.
AllocateUpTo(size, limit) ==
    LET blockIndex == Search(strategy, blocks, size, lastSearchIndex) IN
    IF blockIndex = Thrown
    THEN /\ ret' = [kind |-> "TypeError", val |-> 0]
         /\ UNCHANGED <<state, issued>>
    ELSE IF blockIndex = NotFound
    THEN /\ ret' = [kind |-> "null", val |-> 0]
         /\ UNCHANGED <<state, issued>>
    ELSE /\ nextId <= limit
         /\ nextId' = NextIdAfter(nextId)
         /\ blocks' = PlaceBlock(blocks, blockIndex, size, nextId)
         /\ allocations' = Append(allocations, NewRecord(nextId, size))
         /\ lastSearchIndex' = CursorAfter(blockIndex)
         /\ ret' = [kind |-> "id", val |-> nextId]
         /\ issued' = IF nextId > issued THEN nextId ELSE issued
         /\ UNCHANGED <<totalSize, strategy>>

Allocate(size) == AllocateUpTo(size, MaxId)

\* this.blocks.findIndex(b => b.id === allocationId)
OwnerIndex(bs, allocationId) ==
    LET Owned(b) == b.id = allocationId IN FindIndex(bs, Owned)

Free(allocationId) ==
    LET blockIndex == OwnerIndex(blocks, allocationId) IN
    IF blockIndex = NotFound
    THEN /\ ret' = [kind |-> "false", val |-> 0]
         /\ UNCHANGED <<state, issued>>
    ELSE /\ blocks' = ReleaseBlock(blocks, blockIndex)
         /\ allocations' = MarkFreed(allocations, allocationId)
         /\ ret' = [kind |-> "true", val |-> 0]
         /\ UNCHANGED <<totalSize, nextId, strategy, lastSearchIndex, issued>>

\* defragment that also puts the cursor back to the head of the list.
DefragmentCursorReset ==
    /\ blocks' = DefragmentBlocks(blocks)
    /\ lastSearchIndex' = 0
    /\ UNCHANGED <<totalSize, allocations, nextId, strategy, issued>>
    /\ ret' = [kind |-> "void", val |-> 0]

Defragment ==
    /\ blocks' = DefragmentBlocks(blocks)
    /\ UNCHANGED <<totalSize, allocations, nextId, strategy, lastSearchIndex, issued>>
    /\ ret' = [kind |-> "void", val |-> 0]

\* reset that ignores its argument.
ResetSizeKept(newSize, current) == current

\* reset that stores its argument as given, zero included.
ResetSizeRaw(newSize, current) == newSize

\* `newSize || this.totalSize`: a missing or zero argument keeps the size.
ResetSize(newSize, current) == IF newSize = 0 THEN current ELSE newSize

\* The value reset stores in this.nextId.
ResetNextId == 1

Reset(newSize) ==
    /\ totalSize' = ResetSize(newSize, totalSize)
    /\ blocks' = <<FreeBlock(0, totalSize')>>
    /\ allocations' = <<>>
    /\ nextId' = ResetNextId
    /\ lastSearchIndex' = 0
    /\ UNCHANGED <<strategy, issued>>
    /\ ret' = [kind |-> "void", val |-> 0]

Next ==
    \/ \E s \in 1..Len(StrategyNames) : SetStrategy(s)
    \/ \E size \in AllocSizes : Allocate(size)
    \/ \E id \in FreeIds : Free(id)
    \/ Defragment
    \/ \E newSize \in ResetSizes : Reset(newSize)

Spec == Init /\ [][Next]_vars

\* A run of equal small requests under next-fit: one more id than in Spec,
\* requests of at most half the pool, the pool size left as constructed.
ProgressIds == MaxId + 1
ProgressSizes == 1..(MaxTotal \div 2)

NextProgress ==
    \/ SetStrategy(Len(StrategyNames))
    \/ \E size \in ProgressSizes : AllocateUpTo(size, ProgressIds)
    \/ \E id \in 1..ProgressIds : Free(id)
    \/ Defragment
    \/ Reset(0)

SpecProgress == Init /\ [][NextProgress]_vars

\* mergeAdjacentFreeBlocks taken alone, on any contiguous block list.

\* The number of times the body of the for loop runs from index i on.
RECURSIVE MergeIterations(_, _)
MergeIterations(bs, i) ==
    IF i >= Len(bs) - 1 THEN 0
    ELSE LET current == bs[i + 1]
             next == bs[i + 2]
         IN IF ~current.allocated /\ ~next.allocated
            THEN 1 + MergeIterations(
                       RemoveAt([bs EXCEPT ![i + 1] =
                                   [current EXCEPT !.size = current.size + next.size]],
                                i + 1),
                       i)
            ELSE 1 + MergeIterations(bs, i + 1)

\* Block objects laid end to end from 0: shape[k] is <<size, allocated>>;
\* an allocated block carries its position as id, a free one null.
BlocksOfShape(shape) ==
    Relayout([k \in 1..Len(shape) |->
                [start |-> 0, size |-> shape[k][1], allocated |-> shape[k][2],
                 id |-> IF shape[k][2] THEN k ELSE NULL]], 0)

RECURSIVE ShapeSize(_)
ShapeSize(shape) == IF shape = <<>> THEN 0 ELSE shape[1][1] + ShapeSize(Tail(shape))

\* Any contiguous block list of positive sizes filling at most MaxTotal bytes,
\* free blocks next to each other included.
InitMerge ==
    /\ \E n \in 1..MaxTotal :
          \E shape \in [1..n -> (1..MaxTotal) \X BOOLEAN] :
             /\ ShapeSize(shape) <= MaxTotal
             /\ blocks = BlocksOfShape(shape)
    /\ totalSize = SumSizes(blocks)
    /\ allocations = <<>>
    /\ nextId = Len(blocks) + 1
    /\ strategy = "first-fit"
    /\ lastSearchIndex = 0
    /\ ret = [kind |-> "void", val |-> 0]
    /\ issued = 0

\* One call of mergeAdjacentFreeBlocks; ret.val records how many times the
\* loop body ran.
MergeCall ==
    /\ blocks' = MergeAdjacentFreeBlocks(blocks)
    /\ ret' = [kind |-> "merged", val |-> MergeIterations(blocks, 0)]
    /\ UNCHANGED <<totalSize, allocations, nextId, strategy, lastSearchIndex, issued>>

NextMerge == MergeCall

SpecMerge == InitMerge /\ [][NextMerge]_vars

(* ------------------------------- claims ------------------------------- *)

Indices(s) == 1..Len(s)

SomeFreeFits(bs, size) == \E i \in Indices(bs) : ~bs[i].allocated /\ bs[i].size >= size

\* C1: the block list tiles the space exactly: the first block starts at 0,
\* every block has a positive size, each block ends where the next starts,
\* and the sizes add up to totalSize.
C1_BlocksTileSpace ==
    /\ Len(blocks) >= 1
    /\ blocks[1].start = 0
    /\ \A i \in Indices(blocks) : blocks[i].size > 0
    /\ \A i \in 1..(Len(blocks) - 1) :
          blocks[i].start + blocks[i].size = blocks[i + 1].start
    /\ SumSizes(blocks) = totalSize

\* Splits have happened and a free has left a free block in the middle.
C1_Witness ==
    /\ Len(blocks) >= 3
    /\ \E i \in 2..(Len(blocks) - 1) : ~blocks[i].allocated
    /\ ret.kind = "true"

\* C2: no two adjacent blocks are both free, in every reachable state
\* (after allocate as well as after free and defragment).
C2_NoAdjacentFree ==
    \A i \in 1..(Len(blocks) - 1) : blocks[i].allocated \/ blocks[i + 1].allocated

\* A free has just merged the whole pool back into one block.
C2_Witness ==
    /\ ret.kind = "true"
    /\ Len(blocks) = 1
    /\ Len(allocations) >= 3

\* C3: getStats() reports allocated + free = totalSize.
C3_Conservation ==
    GetStats.allocated + GetStats.free = GetStats.totalSize

\* The pool has been resized and is partly allocated, partly free.
C3_Witness ==
    /\ totalSize # MaxTotal
    /\ GetStats.allocated > 0
    /\ GetStats.free > 0

\* C4: every allocated block's owner id appears in exactly one allocation
\* record, that record is not freed, and no two blocks carry the same owner.
C4_NoDoubleAllocation ==
    /\ \A i \in Indices(blocks) :
          blocks[i].allocated =>
             /\ Cardinality({k \in Indices(allocations) :
                                allocations[k].id = blocks[i].id}) = 1
             /\ \A k \in Indices(allocations) :
                   allocations[k].id = blocks[i].id => ~allocations[k].freed
    /\ \A i, j \in Indices(blocks) :
          (i # j /\ blocks[i].allocated /\ blocks[j].allocated)
             => blocks[i].id # blocks[j].id

\* Two blocks are allocated next to a freed record, after a free.
C4_Witness ==
    /\ ret.kind = "true"
    /\ Cardinality({i \in Indices(blocks) : blocks[i].allocated}) >= 2
    /\ \E k \in Indices(allocations) : allocations[k].freed

\* C5: under every strategy allocate(size) returns a new id if some free
\* block has size >= size, and returns null exactly when none has.
C5_AllocateSucceedsIffFits ==
    [][\A size \in AllocSizes :
          Allocate(size) =>
             /\ SomeFreeFits(blocks, size) => ret'.kind = "id"
             /\ (ret'.kind = "null") <=> ~SomeFreeFits(blocks, size)]_vars

\* C6: allocate(size) with size larger than every free block fails (it
\* returns no id) and leaves blocks, allocations, nextId, strategy,
\* totalSize and lastSearchIndex as they were.
C6_FailedAllocateChangesNothing ==
    [][\A size \in AllocSizes :
          (Allocate(size) /\ ~SomeFreeFits(blocks, size)) =>
             /\ ret'.kind # "id"
             /\ state' = state]_vars

\* An allocate has failed although free bytes and live allocations exist.
C6_Witness ==
    /\ ret.kind = "null"
    /\ GetStats.free > 0
    /\ GetStats.allocated > 0

OwnedBy(bs, id) == \E i \in Indices(bs) : bs[i].allocated /\ bs[i].id = id

\* C7: free(id) returns true exactly when some block is owned by id;
\* otherwise it returns false and changes nothing.  After a successful
\* free(id) no block is owned by id, so a second free(id) returns false
\* and leaves the state of the first.
C7_FreeIdempotent ==
    [][\A id \in FreeIds :
          Free(id) =>
             /\ (ret'.kind = "true") <=> OwnedBy(blocks, id)
             /\ (ret'.kind = "false") <=> ~OwnedBy(blocks, id)
             /\ ret'.kind = "false" => state' = state
             /\ ret'.kind = "true" =>
                   /\ ~OwnedBy(blocks', id)
                   /\ OwnerIndex(blocks', id) = NotFound]_vars

\* A free has returned false while a freed record and a live block exist.
C7_Witness ==
    /\ ret.kind = "false"
    /\ \E k \in Indices(allocations) : allocations[k].freed
    /\ GetStats.allocated > 0

\* C8 as stated: every successful allocate returns an id greater than
\* every id returned by an earlier successful allocate, over any sequence
\* of operations.
C8_IdsNeverReused ==
    [][\A size \in AllocSizes :
          (Allocate(size) /\ ret'.kind = "id") => ret'.val > issued]_vars

\* C8 amended: every successful allocate returns an id greater than every
\* id returned since the latest reset (the ids of the allocation history),
\* and the ids of the history are strictly increasing.
C8_IdsIncreaseBetweenResets ==
    [][\A size \in AllocSizes :
          (Allocate(size) /\ ret'.kind = "id") =>
             /\ \A k \in Indices(allocations) : allocations[k].id < ret'.val
             /\ \A k \in 1..(Len(allocations') - 1) :
                   allocations'[k].id < allocations'[k + 1].id]_vars

\* An allocate after a reset has returned an id that was returned before.
C8_Witness ==
    /\ ret.kind = "id"
    /\ Len(allocations) >= 2
    /\ ret.val < issued

\* C9: a successful free(id) marks the block of id free with no owner,
\* sets the record's freed flag, and leaves the freed range in one free
\* block that starts at the free left neighbour (if any) and whose size
\* adds the sizes of the free neighbours to the freed block's.
C9_FreeCoalesces ==
    [][\A id \in FreeIds :
          (Free(id) /\ ret'.kind = "true") =>
             \E i \in Indices(blocks) :
                LET b == blocks[i]
                    leftFree == i > 1 /\ ~blocks[i - 1].allocated
                    rightFree == i < Len(blocks) /\ ~blocks[i + 1].allocated
                    expStart == IF leftFree THEN blocks[i - 1].start ELSE b.start
                    expSize == b.size
                               + (IF leftFree THEN blocks[i - 1].size ELSE 0)
                               + (IF rightFree THEN blocks[i + 1].size ELSE 0)
                IN /\ b.allocated /\ b.id = id
                   /\ \E j \in Indices(blocks') :
                         blocks'[j] = FreeBlock(expStart, expSize)
                   /\ Len(blocks') = Len(blocks)
                                     - (IF leftFree THEN 1 ELSE 0)
                                     - (IF rightFree THEN 1 ELSE 0)
                   /\ Len(allocations') = Len(allocations)
                   /\ \A k \in Indices(allocations) :
                         allocations'[k] =
                            IF allocations[k].id = id
                            THEN [allocations[k] EXCEPT !.freed = TRUE]
                            ELSE allocations[k]
                   /\ \E k \in Indices(allocations) : allocations[k].id = id]_vars

\* A free has merged the freed block with a free neighbour on each side.
C9_Witness ==
    /\ ret.kind = "true"
    /\ Len(blocks) = 1
    /\ Len(allocations) = 3
    /\ \A k \in Indices(allocations) : allocations[k].size = 1

\* C10: when allocate(size) selects a free block at index k with start s
\* and size n > size, afterwards index k holds the allocated block
\* {s, size, new id}, index k + 1 the free remainder {s + size, n - size},
\* the block count has grown by one and all other blocks are unchanged.
C10_SplitCorrect ==
    [][\A size \in AllocSizes :
          (Allocate(size) /\ ret'.kind = "id") =>
             LET k == Search(strategy, blocks, size, lastSearchIndex)
                 s == blocks[k + 1].start
                 n == blocks[k + 1].size
             IN n > size =>
                   /\ ret'.val = nextId
                   /\ Len(blocks') = Len(blocks) + 1
                   /\ blocks'[k + 1] = [start |-> s, size |-> size,
                                        allocated |-> TRUE, id |-> ret'.val]
                   /\ blocks'[k + 2] = FreeBlock(s + size, n - size)
                   /\ \A j \in 1..k : blocks'[j] = blocks[j]
                   /\ \A j \in (k + 2)..Len(blocks) : blocks'[j + 1] = blocks[j]]_vars

\* A split has happened in front of another block: the new block is
\* followed by its free remainder and then by a block that had to shift.
C10_Witness ==
    /\ ret.kind = "id"
    /\ \E i \in 1..(Len(blocks) - 2) :
          /\ blocks[i].id = ret.val
          /\ ~blocks[i + 1].allocated
          /\ blocks[i + 2].allocated

Fits(bs, i, size) == ~bs[i].allocated /\ bs[i].size >= size

\* The allocation with id `id` sits at element i of `after`, at the start
\* that element i of `pre` had.
PlacedAt(pre, after, i, id) ==
    /\ i \in Indices(after)
    /\ after[i].allocated
    /\ after[i].id = id
    /\ after[i].start = pre[i].start

\* C11: when allocate(size) selects a free block whose size equals size,
\* the block is marked allocated in place with the new id; the number of
\* blocks and every block's start and size are unchanged.
C11_ExactFitInPlace ==
    [][\A size \in AllocSizes :
          (Allocate(size) /\ ret'.kind = "id") =>
             LET k == Search(strategy, blocks, size, lastSearchIndex) IN
             blocks[k + 1].size = size =>
                /\ ~blocks[k + 1].allocated
                /\ ret'.val = nextId
                /\ Len(blocks') = Len(blocks)
                /\ \A j \in Indices(blocks) :
                      /\ blocks'[j].start = blocks[j].start
                      /\ blocks'[j].size = blocks[j].size
                      /\ j # k + 1 => blocks'[j] = blocks[j]
                /\ blocks'[k + 1].allocated
                /\ blocks'[k + 1].id = ret'.val]_vars

\* The block just allocated is not followed by a free remainder: it
\* filled its free block exactly.
C11_Witness ==
    /\ ret.kind = "id"
    /\ Len(blocks) >= 2
    /\ \E i \in Indices(blocks) :
          /\ blocks[i].id = ret.val
          /\ (i = Len(blocks) \/ blocks[i + 1].allocated)

\* C12: under first-fit the allocation goes into the fitting free block
\* with the lowest index.
C12_FirstFitLowestIndex ==
    [][\A size \in AllocSizes :
          (Allocate(size) /\ strategy = "first-fit" /\ ret'.kind = "id") =>
             \E i \in Indices(blocks) :
                /\ Fits(blocks, i, size)
                /\ \A j \in 1..(i - 1) : ~Fits(blocks, j, size)
                /\ PlacedAt(blocks, blocks', i, ret'.val)]_vars

\* First-fit has filled a block exactly while a later free block would
\* have fitted too.
C12_Witness ==
    /\ strategy = "first-fit"
    /\ ret.kind = "id"
    /\ \E i, j \in Indices(blocks) :
          /\ i < j
          /\ blocks[i].id = ret.val
          /\ blocks[i + 1].allocated
          /\ ~blocks[j].allocated
          /\ blocks[j].size >= blocks[i].size

\* C13: under best-fit the allocation goes into a fitting free block of
\* minimum size, the lowest-indexed one among those of that size.
C13_BestFitSmallestFirst ==
    [][\A size \in AllocSizes :
          (Allocate(size) /\ strategy = "best-fit" /\ ret'.kind = "id") =>
             \E i \in Indices(blocks) :
                /\ Fits(blocks, i, size)
                /\ \A j \in Indices(blocks) :
                      Fits(blocks, j, size) => blocks[j].size >= blocks[i].size
                /\ \A j \in 1..(i - 1) :
                      Fits(blocks, j, size) => blocks[j].size > blocks[i].size
                /\ PlacedAt(blocks, blocks', i, ret'.val)]_vars

\* Best-fit has filled a block exactly and passed over an earlier, larger
\* free block.
C13_Witness ==
    /\ strategy = "best-fit"
    /\ ret.kind = "id"
    /\ \E i, j \in Indices(blocks) :
          /\ j < i
          /\ blocks[i].id = ret.val
          /\ (i = Len(blocks) \/ blocks[i + 1].allocated)
          /\ ~blocks[j].allocated
          /\ blocks[j].size > blocks[i].size

\* C14: under worst-fit the allocation goes into a fitting free block of
\* maximum size, the lowest-indexed one among those of that size.
C14_WorstFitLargestFirst ==
    [][\A size \in AllocSizes :
          (Allocate(size) /\ strategy = "worst-fit" /\ ret'.kind = "id") =>
             \E i \in Indices(blocks) :
                /\ Fits(blocks, i, size)
                /\ \A j \in Indices(blocks) :
                      Fits(blocks, j, size) => blocks[j].size <= blocks[i].size
                /\ \A j \in 1..(i - 1) :
                      Fits(blocks, j, size) => blocks[j].size < blocks[i].size
                /\ PlacedAt(blocks, blocks', i, ret'.val)]_vars

\* Worst-fit has split a later block and passed over an earlier free
\* block that would have fitted.
C14_Witness ==
    /\ strategy = "worst-fit"
    /\ ret.kind = "id"
    /\ \E i, j \in Indices(blocks) :
          /\ j < i
          /\ i < Len(blocks)
          /\ blocks[i].id = ret.val
          /\ ~blocks[i + 1].allocated
          /\ ~blocks[j].allocated
          /\ blocks[j].size >= blocks[i].size

\* Element (1-based) reached d steps after 0-based index `from` when the
\* list is walked circularly.
CircularAt(bs, from, d) == ((from + d) % Len(bs)) + 1

\* C15: under next-fit the search walks the list circularly from
\* lastSearchIndex, looks at each block at most once and returns the first
\* fitting free block in that order (the cursor's own block included);
\* after one full pass without a fit it reports not-found.
C15_NextFitCircularScan ==
    [][\A size \in AllocSizes :
          (Allocate(size) /\ strategy = "next-fit") =>
             IF SomeFreeFits(blocks, size)
             THEN /\ ret'.kind = "id"
                  /\ \E d \in 0..(Len(blocks) - 1) :
                        LET i == CircularAt(blocks, lastSearchIndex, d) IN
                        /\ Fits(blocks, i, size)
                        /\ \A e \in 0..(d - 1) :
                              ~Fits(blocks, CircularAt(blocks, lastSearchIndex, e), size)
                        /\ PlacedAt(blocks, blocks', i, ret'.val)
             ELSE ret'.kind = "null"]_vars

\* C16: consecutive next-fit allocations of one size s (nothing in
\* between) fill the fitting free blocks in left-to-right circular order
\* starting after the slot filled by the previous allocation; a slot is
\* not chosen again before the walk has wrapped.
C16_NextFitProgress ==
    [][\A size \in ProgressSizes :
          (/\ AllocateUpTo(size, ProgressIds)
           /\ strategy = "next-fit"
           /\ ret.kind = "id"
           /\ blocks[lastSearchIndex + 1].id = ret.val
           /\ blocks[lastSearchIndex + 1].size = size
           /\ SomeFreeFits(blocks, size)) =>
             /\ ret'.kind = "id"
             /\ \E d \in 1..(Len(blocks) - 1) :
                   LET i == CircularAt(blocks, lastSearchIndex, d) IN
                   /\ Fits(blocks, i, size)
                   /\ \A e \in 1..(d - 1) :
                         ~Fits(blocks, CircularAt(blocks, lastSearchIndex, e), size)
                   /\ PlacedAt(blocks, blocks', i, ret'.val)
                   /\ lastSearchIndex' = i - 1
                   /\ i - 1 # lastSearchIndex]_vars

\* Two equal allocations in a row around an allocated block: the later one
\* wrapped to a slot left of the earlier one.
C16_Witness ==
    /\ strategy = "next-fit"
    /\ ret.kind = "id"
    /\ \E i, j \in Indices(blocks) :
          /\ i + 1 < j
          /\ lastSearchIndex = i - 1
          /\ blocks[i].id = ret.val
          /\ blocks[j].id = ret.val - 1
          /\ blocks[i].size = blocks[j].size
          /\ \A m \in (i + 1)..(j - 1) : blocks[m].allocated

FreeCount(bs) == Cardinality({i \in Indices(bs) : ~bs[i].allocated})

\* C17: after defragment() every allocated block starts below every free
\* block and at most one free block is left (none when no byte is free);
\* a remaining free block is the last block and holds all the bytes that
\* were free before the call.
C17_DefragmentCompacts ==
    [][Defragment =>
          /\ \A i, j \in Indices(blocks') :
                (blocks'[i].allocated /\ ~blocks'[j].allocated)
                   => blocks'[i].start < blocks'[j].start
          /\ FreeCount(blocks') <= 1
          /\ TotalFree(blocks) = 0 => FreeCount(blocks') = 0
          /\ \A j \in Indices(blocks') :
                ~blocks'[j].allocated =>
                   /\ j = Len(blocks')
                   /\ blocks'[j].size = TotalFree(blocks)]_vars

\* The allocated blocks are packed at the front, followed by one free
\* block of several bytes, and something has been freed.
C17_Witness ==
    /\ ret.kind = "void"
    /\ Len(blocks) >= 3
    /\ \A i \in 1..(Len(blocks) - 1) : blocks[i].allocated
    /\ ~blocks[Len(blocks)].allocated
    /\ blocks[Len(blocks)].size >= 2
    /\ \E k \in Indices(allocations) : allocations[k].freed

\* The (owner id, size) pairs of the allocated blocks, in block order.
RECURSIVE AllocatedPairs(_)
AllocatedPairs(bs) ==
    IF bs = <<>> THEN <<>>
    ELSE (IF bs[1].allocated THEN <<<<bs[1].id, bs[1].size>>>> ELSE <<>>)
         \o AllocatedPairs(Tail(bs))

\* C18: defragment() keeps the sequence of (owner id, size) of the
\* allocated blocks, read in block order.
C18_DefragmentKeepsAllocated ==
    [][Defragment => AllocatedPairs(blocks') = AllocatedPairs(blocks)]_vars

\* Two allocated blocks sit packed at the front in an order that differs
\* from the order of their ids, after a void call.
C18_Witness ==
    /\ ret.kind = "void"
    /\ Len(blocks) >= 3
    /\ blocks[1].allocated /\ blocks[2].allocated
    /\ blocks[1].id > blocks[2].id
    /\ ~blocks[Len(blocks)].allocated

\* Number of blocks of `bs` with the given size and owner id.
SizeOwnerCount(bs, size, id) ==
    Cardinality({i \in Indices(bs) : bs[i].size = size /\ bs[i].id = id})

\* C19 as stated: every block present before defragment() is present after
\* it with the same size and the same owner id.
C19_DefragmentKeepsEveryBlock ==
    [][Defragment =>
          \A i \in Indices(blocks) :
             SizeOwnerCount(blocks', blocks[i].size, blocks[i].id)
                = SizeOwnerCount(blocks, blocks[i].size, blocks[i].id)]_vars

\* C19 amended: defragment() keeps the size and owner id of every
\* allocated block (none is lost or added); the free blocks are merged, so
\* only their total size is kept.
C19_DefragmentKeepsAllocatedBlocks ==
    [][Defragment =>
          /\ \A i \in Indices(blocks) :
                blocks[i].allocated =>
                   Cardinality({j \in Indices(blocks') :
                                   /\ blocks'[j].allocated
                                   /\ blocks'[j].id = blocks[i].id
                                   /\ blocks'[j].size = blocks[i].size}) = 1
          /\ Len(blocks') - FreeCount(blocks') = Len(blocks) - FreeCount(blocks)
          /\ TotalFree(blocks') = TotalFree(blocks)]_vars

\* One allocated block is followed by a single free block that is larger
\* than any request made so far, after a void call.
C19_Witness ==
    /\ ret.kind = "void"
    /\ Len(blocks) = 2
    /\ blocks[1].allocated
    /\ ~blocks[2].allocated
    /\ Len(allocations) >= 2
    /\ \A k \in Indices(allocations) : allocations[k].size < blocks[2].size

\* C20: reset(newSize) leaves one free block {0, size}, where size is
\* newSize if given and the current totalSize otherwise, totalSize equal to
\* it, an empty history, nextId 1 and lastSearchIndex 0.
C20_ResetClearsAll ==
    [][\A newSize \in ResetSizes :
          Reset(newSize) =>
             LET size == IF newSize # 0 THEN newSize ELSE totalSize IN
             /\ blocks' = <<[start |-> 0, size |-> size,
                             allocated |-> FALSE, id |-> NULL]>>
             /\ totalSize' = size
             /\ allocations' = <<>>
             /\ nextId' = 1
             /\ lastSearchIndex' = 0]_vars

\* The allocator has been reset to another size after ids were issued.
C20_Witness ==
    /\ ret.kind = "void"
    /\ issued > 0
    /\ allocations = <<>>
    /\ nextId = 1
    /\ totalSize # MaxTotal
    /\ Len(blocks) = 1

\* C21: setStrategy(s) sets strategy to s and lastSearchIndex to 0 and
\* leaves blocks, allocations, nextId and totalSize alone; the cursor is 0
\* right after every change of strategy and every reset.
C21_SetStrategyResetsCursor ==
    [][/\ \A s \in 1..Len(StrategyNames) :
             SetStrategy(s) =>
                /\ strategy' = StrategyNames[s]
                /\ lastSearchIndex' = 0
                /\ blocks' = blocks
                /\ allocations' = allocations
                /\ nextId' = nextId
                /\ totalSize' = totalSize
       /\ strategy' # strategy => lastSearchIndex' = 0
       /\ \A newSize \in ResetSizes : Reset(newSize) => lastSearchIndex' = 0]_vars

\* The newest allocation sits behind the first block, so the cursor was
\* above 0 after it, and a later strategy switch has put it back to 0.
C21_Witness ==
    /\ ret.kind = "void"
    /\ strategy # "first-fit"
    /\ lastSearchIndex = 0
    /\ \E i \in 2..Len(blocks) : blocks[i].id = nextId - 1

\* The largest size among the free blocks of `bs`, 0 when none is free.
LargestFree(bs) ==
    IF FreeCount(bs) = 0 THEN 0
    ELSE CHOOSE m \in {bs[i].size : i \in {j \in Indices(bs) : ~bs[j].allocated}} :
            \A i \in Indices(bs) : ~bs[i].allocated => bs[i].size <= m

HistoryGrows ==
    /\ Len(allocations') >= Len(allocations)
    /\ Len(allocations') <= Len(allocations) + 1
    /\ \A k \in Indices(allocations) :
          /\ allocations'[k].id = allocations[k].id
          /\ allocations'[k].size = allocations[k].size
          /\ allocations[k].freed => allocations'[k].freed
    /\ \A size \in AllocSizes :
          (Allocate(size) /\ ret'.kind = "id") =>
             allocations' = Append(allocations,
                               [id |-> ret'.val, size |-> size, freed |-> FALSE])
    /\ Len(allocations') > Len(allocations) => ret'.kind = "id"

\* C23 as stated: the history is append-only over every step.
C23_HistoryAppendOnly == [][HistoryGrows]_vars

\* C23 amended: the history is append-only over every step except reset,
\* which empties it.
C23_HistoryAppendOnlyUntilReset ==
    [][\/ HistoryGrows
       \/ /\ \E newSize \in ResetSizes : Reset(newSize)
          /\ allocations' = <<>>]_vars

\* After a reset has dropped earlier records the history holds a live and
\* a freed record again.
C23_Witness ==
    /\ issued > Len(allocations)
    /\ \E k \in Indices(allocations) : allocations[k].freed
    /\ \E k \in Indices(allocations) : ~allocations[k].freed

\* C24: every call of allocate, free, defragment, reset and setStrategy
\* returns normally: allocate with an id or null, free with a boolean, the
\* others with nothing; no call raises an error.
C24_CallsReturnNormally ==
    [][/\ \A size \in AllocSizes : Allocate(size) => ret'.kind \in {"id", "null"}
       /\ \A id \in FreeIds : Free(id) => ret'.kind \in {"true", "false"}
       /\ Defragment => ret'.kind = "void"
       /\ \A newSize \in ResetSizes : Reset(newSize) => ret'.kind = "void"
       /\ \A s \in 1..Len(StrategyNames) : SetStrategy(s) => ret'.kind = "void"]_vars

\* C25: after every successful allocate, under any strategy,
\* lastSearchIndex is the index of the block just allocated.
C25_CursorOnFilledSlot ==
    [][\A size \in AllocSizes :
          (Allocate(size) /\ ret'.kind = "id") =>
             /\ lastSearchIndex' + 1 \in Indices(blocks')
             /\ blocks'[lastSearchIndex' + 1].allocated
             /\ blocks'[lastSearchIndex' + 1].id = ret'.val
             /\ \A j \in Indices(blocks') :
                   blocks'[j].id = ret'.val => j = lastSearchIndex' + 1]_vars

\* A split behind the first block has just happened under a strategy other
\* than next-fit, and the cursor is on the new block.
C25_Witness ==
    /\ ret.kind = "id"
    /\ strategy = "worst-fit"
    /\ lastSearchIndex >= 1
    /\ lastSearchIndex + 2 \in Indices(blocks)
    /\ blocks[lastSearchIndex + 1].id = ret.val
    /\ ~blocks[lastSearchIndex + 2].allocated

\* C26: lastSearchIndex is always a valid index into the block list.
C26_CursorInRange ==
    /\ 0 <= lastSearchIndex
    /\ lastSearchIndex < Len(blocks)

\* Blocks i..j of bs are a maximal run of free blocks.
FreeRun(bs, i, j) ==
    /\ i <= j
    /\ \A k \in i..j : ~bs[k].allocated
    /\ i = 1 \/ bs[i - 1].allocated
    /\ j = Len(bs) \/ bs[j + 1].allocated

\* C27: one call of mergeAdjacentFreeBlocks on any contiguous block list runs
\* its loop body at most as many times as there were blocks, leaves no two
\* adjacent free blocks, turns every maximal run of free blocks into one free
\* block with the run's first start and summed size, and leaves the allocated
\* blocks as they were, in order.
C27_MergeCompleteOnePass ==
    [][MergeCall =>
          /\ ret'.val <= Len(blocks)
          /\ \A i \in 1..(Len(blocks') - 1) :
                blocks'[i].allocated \/ blocks'[i + 1].allocated
          /\ SelectSeq(blocks', IsAllocated) = SelectSeq(blocks, IsAllocated)
          /\ \A i \in Indices(blocks) : \A j \in Indices(blocks) :
                FreeRun(blocks, i, j) =>
                   \E m \in Indices(blocks') :
                      blocks'[m] = FreeBlock(blocks[i].start,
                                             SumSizes(SubSeq(blocks, i, j)))
          /\ Len(SelectSeq(blocks', IsFree))
                = Cardinality({r \in Indices(blocks) \X Indices(blocks) :
                                  FreeRun(blocks, r[1], r[2])})
          /\ \A m \in 1..(Len(blocks') - 1) :
                blocks'[m + 1].start = blocks'[m].start + blocks'[m].size
          /\ blocks'[1].start = blocks[1].start]_vars

\* A list of four blocks with a run of three free ones has been merged to
\* an allocated block and one free block.
C27_Witness ==
    /\ ret.kind = "merged"
    /\ ret.val >= 3
    /\ Len(blocks) = 2
    /\ \E i \in Indices(blocks) : blocks[i].allocated
    /\ \E i \in Indices(blocks) : ~blocks[i].allocated /\ blocks[i].size >= 3

\* C28: a block carries an owner id exactly when it is allocated: null on
\* every free block, a positive integer below nextId on every allocated one.
C28_IdIffAllocated ==
    \A i \in Indices(blocks) :
       /\ (blocks[i].id = NULL) <=> ~blocks[i].allocated
       /\ blocks[i].allocated => (blocks[i].id >= 1 /\ blocks[i].id < nextId)

\* A free has just released one block while another is still allocated.
C28_Witness ==
    /\ ret.kind = "true"
    /\ \E i \in Indices(blocks) : blocks[i].allocated
    /\ \E i \in Indices(blocks) : ~blocks[i].allocated /\ blocks[i].id = NULL
    /\ \E k \in Indices(allocations) : allocations[k].freed

BlocksWithId(bs, id) == {i \in Indices(bs) : bs[i].id = id}

\* C29: every record with freed = false owns exactly one block, which is
\* allocated; every record with freed = true owns none; every allocated block
\* is owned by exactly one record, an active one; so getStats().allocations
\* equals the number of allocated blocks.
C29_ActiveRecordsMatchBlocks ==
    /\ \A k \in Indices(allocations) :
          IF allocations[k].freed
          THEN BlocksWithId(blocks, allocations[k].id) = {}
          ELSE /\ Cardinality(BlocksWithId(blocks, allocations[k].id)) = 1
               /\ \A i \in BlocksWithId(blocks, allocations[k].id) : blocks[i].allocated
    /\ \A i \in Indices(blocks) :
          blocks[i].allocated =>
             /\ Cardinality({k \in Indices(allocations) :
                                allocations[k].id = blocks[i].id}) = 1
             /\ \E k \in Indices(allocations) :
                   allocations[k].id = blocks[i].id /\ ~allocations[k].freed
    /\ GetStats.allocations = Len(SelectSeq(blocks, IsAllocated))

\* Two records are active and an older one is freed.
C29_Witness ==
    /\ GetStats.allocations = 2
    /\ Len(allocations) = 3
    /\ \E k \in Indices(allocations) : allocations[k].freed
    /\ Len(SelectSeq(blocks, IsAllocated)) = 2

\* C30: the size in every active record is the size of the block it owns; an
\* allocated block keeps its size from one step to the next for as long as
\* it stays allocated; the allocated bytes are the sum of the sizes of the
\* records that are not freed.
C30_RecordSizeIsBlockSize ==
    /\ [](/\ \A k \in Indices(allocations) :
               ~allocations[k].freed =>
                  \E i \in Indices(blocks) :
                     /\ blocks[i].id = allocations[k].id
                     /\ blocks[i].size = allocations[k].size
          /\ GetStats.allocated = SumSizes(SelectSeq(allocations, IsActive)))
    /\ [][\A i \in Indices(blocks) : \A j \in Indices(blocks') :
             (/\ blocks[i].allocated /\ blocks'[j].allocated
              /\ blocks[i].id = blocks'[j].id)
                => blocks'[j].size = blocks[i].size]_vars

\* A defragment has just moved an allocated block of two bytes down over a
\* hole while another block stays allocated.
C30_Witness ==
    /\ ret.kind = "void"
    /\ Len(blocks) >= 3
    /\ blocks[1].allocated /\ blocks[2].allocated
    /\ blocks[1].id > blocks[2].id \/ blocks[2].id - blocks[1].id >= 2
    /\ \E k \in Indices(allocations) : allocations[k].freed
    /\ \E i \in Indices(blocks) : blocks[i].allocated /\ blocks[i].size >= 2

NoActiveRecord(allocs) == \A k \in Indices(allocs) : allocs[k].freed

\* C31: once every active allocation has been freed, in any order and with or
\* without defragment in between, the block list is the single free block
\* {start 0, size totalSize}.
C31_FreeAllRestoresPool ==
    /\ [](NoActiveRecord(allocations) => blocks = <<FreeBlock(0, totalSize)>>)
    /\ [][\A id \in FreeIds :
             (Free(id) /\ ret'.kind = "true" /\ NoActiveRecord(allocations'))
                => blocks' = <<FreeBlock(0, totalSize)>>]_vars

\* The last active one of three allocations has just been freed.
C31_Witness ==
    /\ ret.kind = "true"
    /\ Len(allocations) = 3
    /\ NoActiveRecord(allocations)
    /\ blocks = <<FreeBlock(0, totalSize)>>

\* C32: right after defragment(), under every strategy and whatever the
\* cursor holds, allocate(size) succeeds for every positive size up to the
\* free bytes and fails (returns null) for every larger size. The outcome of
\* allocate is the one of the search it starts with.
C32_DefragmentMakesFreeUsable ==
    [][Defragment =>
          \A size \in 1..(MaxTotal + 1) :
             LET blockIndex == Search(strategy', blocks', size, lastSearchIndex')
             IN IF size <= TotalFree(blocks')
                THEN blockIndex >= 0
                ELSE blockIndex = NotFound]_vars

\* C33: a successful free(id) leaves every other allocated block as it was
\* (start, size, id, order), leaves nextId, strategy, totalSize and
\* lastSearchIndex unchanged, and changes no record but the one with that id,
\* of which it changes only `freed`.
C33_FreeFrame ==
    [][\A id \in FreeIds :
          (Free(id) /\ ret'.kind = "true") =>
             LET Others(b) == b.allocated /\ b.id # id IN
             /\ SelectSeq(blocks', IsAllocated) = SelectSeq(blocks, Others)
             /\ nextId' = nextId /\ strategy' = strategy
             /\ totalSize' = totalSize /\ lastSearchIndex' = lastSearchIndex
             /\ Len(allocations') = Len(allocations)
             /\ \A k \in Indices(allocations) :
                   IF allocations[k].id = id
                   THEN allocations'[k] = [allocations[k] EXCEPT !.freed = TRUE]
                   ELSE allocations'[k] = allocations[k]]_vars

\* A free has just merged the released block into the free tail while the
\* first block stays allocated and the cursor still points behind it.
C33_Witness ==
    /\ ret.kind = "true"
    /\ Len(blocks) = 2
    /\ blocks[1].allocated
    /\ ~blocks[2].allocated /\ blocks[2].size >= 2
    /\ lastSearchIndex >= 1
    /\ \E k \in Indices(allocations) : ~allocations[k].freed

\* C34: defragment() leaves the history, nextId, strategy, totalSize and
\* lastSearchIndex unchanged, and getStats() reports the same allocated
\* bytes, free bytes and active allocation count after it as before it.
C34_DefragmentFrame ==
    [][Defragment =>
          /\ allocations' = allocations /\ nextId' = nextId
          /\ strategy' = strategy /\ totalSize' = totalSize
          /\ lastSearchIndex' = lastSearchIndex
          /\ TotalAllocated(blocks') = GetStats.allocated
          /\ TotalFree(blocks') = GetStats.free
          /\ Len(SelectSeq(allocations', IsActive)) = GetStats.allocations]_vars

\* A defragment has just compacted the pool to one allocated block and the
\* free space, with the cursor left on a later index.
C34_Witness ==
    /\ ret.kind = "void"
    /\ Len(blocks) = 2
    /\ blocks[1].allocated /\ blocks[1].id >= 2
    /\ ~blocks[2].allocated
    /\ lastSearchIndex >= 1
    /\ GetStats.allocations = 1

\* C35: reset keeps the strategy; reset with no argument or 0 keeps
\* totalSize, reset with a positive size stores it; totalSize is a positive
\* integer in every state.
C35_ResetKeepsStrategyAndSize ==
    /\ [](totalSize \in Nat /\ totalSize >= 1)
    /\ [][\A newSize \in ResetSizes :
             Reset(newSize) =>
                /\ strategy' = strategy
                /\ newSize = 0 => totalSize' = totalSize
                /\ newSize > 0 => totalSize' = newSize]_vars

\* A reset has just happened after an allocation, with a strategy other than
\* the initial one and a pool size other than the initial one.
C35_Witness ==
    /\ ret.kind = "void"
    /\ strategy = "worst-fit"
    /\ totalSize = MaxTotal - 1
    /\ allocations = <<>> /\ nextId = 1
    /\ issued >= 1

\* C36: right after setStrategy('next-fit'), or after reset under next-fit,
\* allocate(size) picks the block first-fit would pick in the same list and
\* leaves the same block list; so does any allocate under next-fit that
\* starts with the cursor at 0.
C36_NextFitStartsAsFirstFit ==
    [][/\ \A size \in AllocSizes :
             (\/ (\E s \in 1..Len(StrategyNames) : SetStrategy(s))
              \/ (\E newSize \in ResetSizes : Reset(newSize)))
             /\ strategy' = "next-fit"
             => /\ Search(strategy', blocks', size, lastSearchIndex')
                      = FirstFit(blocks', size)
                /\ FirstFit(blocks', size) # NotFound =>
                      PlaceBlock(blocks', Search(strategy', blocks', size,
                                                 lastSearchIndex'), size, nextId')
                         = PlaceBlock(blocks', FirstFit(blocks', size), size, nextId')
       /\ \A size \in AllocSizes :
             (Allocate(size) /\ strategy = "next-fit" /\ lastSearchIndex = 0) =>
                /\ (ret'.kind = "id") <=> (FirstFit(blocks, size) # NotFound)
                /\ ret'.kind # "TypeError"
                /\ ret'.kind = "id" =>
                      /\ blocks' = PlaceBlock(blocks, FirstFit(blocks, size),
                                              size, ret'.val)
                      /\ lastSearchIndex' = FirstFit(blocks, size)]_vars

\* setStrategy('next-fit') has just been called on a list whose first block
\* is allocated, after an allocation further along the list.
C36_Witness ==
    /\ ret.kind = "void"
    /\ strategy = "next-fit"
    /\ lastSearchIndex = 0
    /\ Len(blocks) >= 3
    /\ blocks[1].allocated /\ blocks[2].allocated
    /\ \E i \in Indices(blocks) : ~blocks[i].allocated

=============================================================================
